---------------------------- MODULE Spec2Model ----------------------------
(***************************************************************************)
(* Scaled dot-product self-attention (Notebooks/00_scaled_dot_product):    *)
(* the exploratory numpy cells, the attention steps of                     *)
(* ScaledDotProductSA.call and the Keras lifecycle of the layer.           *)
(*                                                                         *)
(* Arithmetic is exact.  A number is one of                                *)
(*   [t |-> "int", v]        an integer,                                   *)
(*   [t |-> "sc", a, c]      the real a + c/sqrt(dk) (a scaled score),     *)
(*   [t |-> "fr", num, den]  a quotient of two exponential sums,           *)
(*   [t |-> "inf", s]        +Inf (s = 1) or -Inf (s = -1),                *)
(*   [t |-> "nan"]           NaN.                                          *)
(* An exponential sum is a function from exponents <<a, c>> (the real      *)
(* a + c/sqrt(dk)) to non-zero integer coefficients; by the                *)
(* Lindemann-Weierstrass theorem two such sums over distinct exponents are *)
(* equal as reals exactly when they are equal as functions.                *)
(***************************************************************************)
EXTENDS Integers, Sequences, FiniteSets, TLC

\* Bounds of the model.
MaxRows == 2
MaxCols == 2
MaxDk == 2
MaxVal == 1

MaxUnits == 1
MaxIds == 6

VARIABLES
    dk,         \* self.dk
    dv,         \* self.dv
    return_attn,\* self.return_attn
    built,      \* the layer's Keras flag: build has completed
    selfQ,      \* self.Q, a Dense layer once build has created it
    selfK,      \* self.K
    selfV,      \* self.V
    nextId,     \* identity of the next object created
    inputs,     \* the argument of the last invocation
    ret,        \* what the last invocation returned or raised
    kin,        \* kernel: the arguments Q, K, V, dk of the attention steps
    kret,       \* kernel: what the attention steps gave
    nbQ,        \* notebook: Q, the stacked queries (its first row is q_i)
    nbK,        \* notebook: K, the stacked keys k_1, k_2
    nbDots,     \* notebook: dot_prod(q_i, k_1), dot_prod(q_i, k_2)
    A_i,        \* notebook: q_i[None,:] @ K.T
    nbEinsum,   \* notebook: np.einsum("i,ji", q_i, K)
    nbA,        \* notebook: A
    cell        \* notebook: the number of cells of the derivation run so far

layerVars == <<dk, dv, return_attn, built, selfQ, selfK, selfV, nextId, inputs, ret>>
kernelVars == <<kin, kret>>
nbVars == <<nbQ, nbK, nbDots, A_i, nbEinsum, nbA, cell>>
vars == <<layerVars, kernelVars, nbVars>>

None == [t |-> "none"]

-----------------------------------------------------------------------------
(* Numbers *)

IntN(v) == [t |-> "int", v |-> v]
NaN == [t |-> "nan"]
Inf(s) == [t |-> "inf", s |-> s]
Sc(e) == [t |-> "sc", a |-> e[1], c |-> e[2]]
Fr(num, den) == [t |-> "fr", num |-> num, den |-> den]

ZeroPoly == [e \in {} |-> 0]
Mono(e, k) == IF k = 0 THEN ZeroPoly ELSE [x \in {e} |-> k]
ConstPoly(k) == Mono(<<0, 0>>, k)

Coef(p, e) == IF e \in DOMAIN p THEN p[e] ELSE 0

Trim(D, F(_)) == [e \in {x \in D : F(x) # 0} |-> F(e)]

PolyAdd(p, q) == Trim(DOMAIN p \cup DOMAIN q, LAMBDA e : Coef(p, e) + Coef(q, e))

PolyScale(p, k) == Trim(DOMAIN p, LAMBDA e : k * p[e])

PolySub(p, q) == PolyAdd(p, PolyScale(q, 0 - 1))

RECURSIVE SumSet(_, _)
SumSet(S, f) ==
    IF S = {} THEN 0
    ELSE LET x == CHOOSE y \in S : TRUE IN f[x] + SumSet(S \ {x}, f)

PolyMul(p, q) ==
    LET D == {<<x[1] + y[1], x[2] + y[2]>> : x \in DOMAIN p, y \in DOMAIN q}
        C(e) == LET xs == {x \in DOMAIN p : <<e[1] - x[1], e[2] - x[2]>> \in DOMAIN q}
                IN SumSet(xs, [x \in xs |-> p[x] * q[<<e[1] - x[1], e[2] - x[2]>>]])
    IN Trim(D, C)

ToFr(x) == IF x.t = "int" THEN Fr(ConstPoly(x.v), ConstPoly(1)) ELSE x

FrAdd(x, y) ==
    IF x.den = y.den THEN Fr(PolyAdd(x.num, y.num), x.den)
    ELSE Fr(PolyAdd(PolyMul(x.num, y.den), PolyMul(y.num, x.den)), PolyMul(x.den, y.den))

\* x + y of the array library
Add(x, y) ==
    CASE x.t = "nan" \/ y.t = "nan" -> NaN
      [] x.t = "inf" /\ y.t = "inf" -> IF x.s = y.s THEN x ELSE NaN
      [] x.t = "inf" /\ y.t \notin {"inf", "nan"} -> x
      [] y.t = "inf" /\ x.t \notin {"inf", "nan"} -> y
      [] x.t = "int" /\ y.t = "int" -> IntN(x.v + y.v)
      [] x.t \in {"int", "fr"} /\ y.t \in {"int", "fr"} /\ "fr" \in {x.t, y.t} ->
            FrAdd(ToFr(x), ToFr(y))

\* x * y of the array library
Mul(x, y) ==
    CASE x.t = "nan" \/ y.t = "nan" -> NaN
      [] x.t = "int" /\ y.t = "int" -> IntN(x.v * y.v)
      [] x.t = "fr" /\ y.t = "int" -> Fr(PolyScale(x.num, y.v), x.den)
      [] x.t = "int" /\ y.t = "fr" -> Fr(PolyScale(y.num, x.v), y.den)
      [] x.t = "fr" /\ y.t = "fr" -> Fr(PolyMul(x.num, y.num), PolyMul(x.den, y.den))

RECURSIVE SumSeq(_)
SumSeq(s) == IF Len(s) = 0 THEN IntN(0) ELSE Add(SumSeq(SubSeq(s, 1, Len(s) - 1)), s[Len(s)])

IsSquare(n) == \E r \in 1..n : r * r = n
Root(n) == CHOOSE r \in 1..n : r * r = n

\* The exponent a + c/sqrt(dk) in its one canonical form: when sqrt(dk) is an
\* integer, 1 and 1/sqrt(dk) are not independent and a is folded into c.
Canon(a, c, d_k) ==
    IF a = 0 \/ ~IsSquare(d_k) THEN <<a, c>> ELSE <<0, a * Root(d_k) + c>>

-----------------------------------------------------------------------------
(* Arrays: r rows, c columns, at[<<i, j>>] the entry *)

Mat(r, c, F(_, _)) ==
    [r |-> r, c |-> c, at |-> [p \in (1..r) \X (1..c) |-> F(p[1], p[2])]]

ShapeError == [err |-> "incompatible shapes"]
IsError(m) == "err" \in DOMAIN m

\* mutant: the transposition forgotten
TransposeForgotten(M) == M

\* K.T
Transpose(M) == Mat(M.c, M.r, LAMBDA i, j : M.at[<<j, i>>])

\* A @ B
MatMul(A, B) ==
    IF A.c # B.r THEN ShapeError
    ELSE Mat(A.r, B.c,
             LAMBDA i, j : SumSeq([k \in 1..A.c |-> Mul(A.at[<<i, k>>], B.at[<<k, j>>])]))

\* mutant: the score left unscaled
ScaleOmitted(x, d_k) == Sc(Canon(x.v, 0, IF d_k > 0 THEN d_k ELSE 1))

\* x / sqrt(dk) for an integer score x
Scale(x, d_k) ==
    CASE d_k < 0 -> NaN
      [] d_k = 0 -> IF x.v = 0 THEN NaN ELSE IF x.v > 0 THEN Inf(1) ELSE Inf(0 - 1)
      [] d_k > 0 -> Sc(Canon(0, x.v, d_k))

\* A / tf.math.sqrt(dk)
DivSqrt(A, d_k) == Mat(A.r, A.c, LAMBDA i, j : Scale(A.at[<<i, j>>], d_k))

\* exp(x) for a finite scaled score x
Exp(x) == Mono(<<x.a, x.c>>, 1)

RECURSIVE SumPolys(_)
SumPolys(s) ==
    IF Len(s) = 0 THEN ZeroPoly ELSE PolyAdd(SumPolys(SubSeq(s, 1, Len(s) - 1)), s[Len(s)])

\* mutant: exponentials left unnormalised
SoftmaxAtUnnormalised(xs, j) ==
    IF xs[j].t = "sc" THEN Fr(Exp(xs[j]), ConstPoly(1)) ELSE NaN

\* softmax of the vector xs (a function on 1..n), at position j
SoftmaxAt(xs, j) ==
    LET n == Len(xs)
        bad == \/ \E k \in 1..n : xs[k].t = "nan" \/ (xs[k].t = "inf" /\ xs[k].s = 1)
               \/ \A k \in 1..n : xs[k].t = "inf"
        den == SumPolys([k \in 1..n |-> IF xs[k].t = "sc" THEN Exp(xs[k]) ELSE ZeroPoly])
    IN IF bad THEN NaN
       ELSE IF xs[j].t = "inf" THEN Fr(ZeroPoly, den)
       ELSE Fr(Exp(xs[j]), den)

\* mutant: normalised over axis 0, the queries
SoftmaxAxis0(A) ==
    Mat(A.r, A.c, LAMBDA i, j : SoftmaxAt([k \in 1..A.r |-> A.at[<<k, j>>]], i))

\* tf.nn.softmax(A, axis=-1)
Softmax(A) ==
    Mat(A.r, A.c, LAMBDA i, j : SoftmaxAt([k \in 1..A.c |-> A.at[<<i, k>>]], j))

\* mutant: the values weighted by the columns of A
AttentionColumnWeights(Q, K, V, d_k) ==
    LET S == MatMul(Q, Transpose(K)) IN
    IF IsError(S) THEN [status |-> "raised", error |-> S.err]
    ELSE LET A == Softmax(DivSqrt(S, d_k))
             output == MatMul(Transpose(A), V)
         IN IF IsError(output) THEN [status |-> "raised", error |-> output.err]
            ELSE [status |-> "returned", A |-> A, output |-> output]

\* Steps 2-4 of ScaledDotProductSA.call on the projected Q, K, V
Attention(Q, K, V, d_k) ==
    LET S == MatMul(Q, Transpose(K)) IN
    IF IsError(S) THEN [status |-> "raised", error |-> S.err]
    ELSE LET A == Softmax(DivSqrt(S, d_k))
             output == MatMul(A, V)
         IN IF IsError(output) THEN [status |-> "raised", error |-> output.err]
            ELSE [status |-> "returned", A |-> A, output |-> output]

\* the arrays of the given shapes over the given entries
MatSet(rs, cs, vals) ==
    UNION {UNION {{[r |-> r, c |-> c, at |-> f] : f \in [(1..r) \X (1..c) -> vals]}
                  : c \in cs} : r \in rs}


-----------------------------------------------------------------------------
(* The layer ScaledDotProductSA *)

RaisedWith(e) == [status |-> "raised", error |-> e]

\* layers.Dense(units): a projection whose weights do not exist yet
DenseNew(units, id) == [id |-> id, units |-> units, kernel |-> None, bias |-> None]

\* Dense.__init__ raises ValueError for a negative number of units
DenseRejects(units) == units < 0

\* self.P(inputs) for a Dense layer p: the first application creates the weights
\* (kernel W of shape (d_model, units), bias zero), then X @ kernel + bias
DenseCall(p, X, W) ==
         LET q == IF p.kernel = None
                  THEN [p EXCEPT !.kernel = W,
                                 !.bias = Mat(1, p.units, LAMBDA i, j : IntN(0))]
                  ELSE p
             y == MatMul(X, q.kernel)
         IN IF IsError(y)
            THEN [p |-> q, raised |-> TRUE, error |-> "input incompatible with the layer"]
            ELSE [p |-> q, raised |-> FALSE,
                  out |-> Mat(y.r, y.c, LAMBDA i, j : Add(y.at[<<i, j>>], q.bias.at[<<1, j>>]))]

\* build: self.Q = Dense(dk); self.K = Dense(dk); self.V = Dense(dv)
Build(self) ==
    IF DenseRejects(self.dk) THEN [self |-> self, raised |-> TRUE]
    ELSE LET s1 == [self EXCEPT !.Q = DenseNew(self.dk, self.nextId),
                                !.K = DenseNew(self.dk, self.nextId + 1),
                                !.nextId = @ + 2]
         IN IF DenseRejects(self.dv) THEN [self |-> s1, raised |-> TRUE]
            ELSE [self |-> [s1 EXCEPT !.V = DenseNew(self.dv, s1.nextId), !.nextId = @ + 1],
                  raised |-> FALSE]

\* mutant: the pair returned in the other order
ReturnSwapped(flag, A, output) == IF flag THEN <<output, A>> ELSE output

\* if self.return_attn: return A, output / else: return output
Return(flag, A, output) == IF flag THEN <<A, output>> ELSE output

\* call(inputs)
Call(self, X, W) ==
    LET q == DenseCall(self.Q, X, W.Q) IN
    IF q.raised THEN [self |-> [self EXCEPT !.Q = q.p], ret |-> RaisedWith(q.error)]
    ELSE
    LET k == DenseCall(self.K, X, W.K) IN
    IF k.raised THEN [self |-> [self EXCEPT !.Q = q.p, !.K = k.p], ret |-> RaisedWith(k.error)]
    ELSE
    LET v == DenseCall(self.V, X, W.V)
        s == [self EXCEPT !.Q = q.p, !.K = k.p, !.V = v.p]
    IN
    IF v.raised THEN [self |-> s, ret |-> RaisedWith(v.error)]
    ELSE
    LET att == Attention(q.out, k.out, v.out, self.dk) IN
    IF att.status = "raised" THEN [self |-> s, ret |-> att]
    ELSE [self |-> s,
          ret |-> [status |-> "returned", value |-> Return(self.return_attn, att.A, att.output)]]

\* layer(inputs): Keras runs build before the first call and marks the layer
\* built when build returns
LayerCall(self, X, W) ==
    LET b == IF self.built THEN [self |-> self, raised |-> FALSE] ELSE Build(self) IN
    IF b.raised THEN [self |-> b.self, ret |-> RaisedWith("invalid units")]
    ELSE Call([b.self EXCEPT !.built = TRUE], X, W)

Self ==
    [dk |-> dk, dv |-> dv, return_attn |-> return_attn, built |-> built,
     Q |-> selfQ, K |-> selfK, V |-> selfV, nextId |-> nextId]

XVals == {IntN(v) : v \in 0..MaxVal}
WVals == {IntN(v) : v \in {0 - MaxVal, MaxVal}}
Units == (0 - 1)..MaxUnits
Inputs == MatSet(1..MaxRows, 1..MaxCols, XVals)

\* the initializer's draw for a projection applied to an input of d columns
Kernels(p, d, units) ==
    IF p # None /\ p.kernel # None THEN {p.kernel}
    ELSE MatSet({d}, {IF units < 0 THEN 0 ELSE units}, WVals)

\* the notebook's cells not run
NotebookIdle ==
    /\ nbQ = None /\ nbK = None /\ nbDots = None /\ A_i = None
    /\ nbEinsum = None /\ nbA = None /\ cell = 0

\* ScaledDotProductSA(dk, dv, return_attn)
Init ==
    /\ dk \in Units
    /\ dv \in Units
    /\ return_attn \in BOOLEAN
    /\ built = FALSE
    /\ selfQ = None /\ selfK = None /\ selfV = None
    /\ nextId = 1
    /\ inputs = None
    /\ ret = None
    /\ kin = None /\ kret = None
    /\ NotebookIdle

Invoke ==
    /\ built \/ nextId + 3 <= MaxIds
    /\ \E X \in Inputs :
        \E Wq \in Kernels(selfQ, X.c, dk), Wk \in Kernels(selfK, X.c, dk),
           Wv \in Kernels(selfV, X.c, dv) :
          \E o \in {LayerCall(Self, X, [Q |-> Wq, K |-> Wk, V |-> Wv])} :
               /\ built' = o.self.built
               /\ selfQ' = o.self.Q
               /\ selfK' = o.self.K
               /\ selfV' = o.self.V
               /\ nextId' = o.self.nextId
               /\ inputs' = X
               /\ ret' = o.ret
    /\ UNCHANGED <<dk, dv, return_attn>>
    /\ UNCHANGED <<kernelVars, nbVars>>

Next == Invoke

Spec == Init /\ [][Next]_vars

\* a layer that is never constructed: the state of the layer's variables in
\* the specifications of the pure computations
LayerIdle ==
    /\ dk = 0 /\ dv = 0 /\ return_attn = FALSE /\ built = FALSE
    /\ selfQ = None /\ selfK = None /\ selfV = None
    /\ nextId = 1
    /\ inputs = None /\ ret = None

-----------------------------------------------------------------------------
(* The attention steps as a function of Q, K, V and dk *)

QVals == {IntN(v) : v \in 0..MaxVal}
KVals == {IntN(v) : v \in {0 - MaxVal, MaxVal}}
VVals == {IntN(v) : v \in {0 - MaxVal, MaxVal}}

KernelInit ==
    /\ LayerIdle
    /\ kin \in [Q : MatSet(1..MaxRows, 1..MaxCols, QVals),
                K : MatSet(1..MaxRows, 1..MaxCols, KVals),
                V : MatSet(1..MaxRows, 1..MaxCols, VVals),
                dk : (0 - 1)..MaxDk]
    /\ kret = None
    /\ NotebookIdle

KernelApply ==
    /\ kret = None
    /\ kret' = Attention(kin.Q, kin.K, kin.V, kin.dk)
    /\ UNCHANGED <<kin, layerVars, nbVars>>

KernelNext == KernelApply

SpecKernel == KernelInit /\ [][KernelNext]_vars

-----------------------------------------------------------------------------
(* The exploratory cells of the notebook *)

\* np.sqrt(6): the cell scales by the literal 6, the length of the vectors
NotebookDk == 6

\* def dot_prod(v1, v2): return np.sum(v1*v2)
dot_prod(v1, v2) == SumSeq([k \in 1..Len(v1) |-> Mul(v1[k], v2[k])])

\* q[None,:]
RowVector(q) == Mat(1, Len(q), LAMBDA i, j : q[j])

\* np.einsum("i,ji", q, K): the index i is summed over, j is left
Einsum(q, K) == [j \in 1..K.r |-> SumSeq([i \in 1..Len(q) |-> Mul(q[i], K.at[<<j, i>>])])]

\* x / m for two scaled scores
Div(x, m) ==
    IF m.c = 0 THEN (IF x.c = 0 THEN NaN ELSE IF x.c > 0 THEN Inf(1) ELSE Inf(0 - 1))
    ELSE IF m.c > 0 THEN Fr(ConstPoly(x.c), ConstPoly(m.c))
    ELSE Fr(ConstPoly(0 - x.c), ConstPoly(0 - m.c))

\* A.max(axis=1)[i]
RowMax(A, i) ==
    LET j == CHOOSE j \in 1..A.c : \A k \in 1..A.c : A.at[<<i, j>>].c >= A.at[<<i, k>>].c
    IN A.at[<<i, j>>]

\* mutant: divided by the column maximum, A.max(axis=0)[None,:]
MaxNormAxis0(A) ==
    Mat(A.r, A.c, LAMBDA i, j :
        Div(A.at[<<i, j>>],
            A.at[<<CHOOSE m \in 1..A.r : \A k \in 1..A.r : A.at[<<m, j>>].c >= A.at[<<k, j>>].c, j>>]))

\* A / A.max(axis=1)[:,None]
MaxNorm(A) == Mat(A.r, A.c, LAMBDA i, j : Div(A.at[<<i, j>>], RowMax(A, i)))

q_i == [j \in 1..nbQ.c |-> nbQ.at[<<1, j>>]]
k_(j) == [i \in 1..nbK.c |-> nbK.at[<<j, i>>]]

FromRows(rows) == Mat(Len(rows), Len(rows[1]), LAMBDA i, j : IntN(rows[i][j]))

\* q_i = np.linspace(1,6, num=6); k_1, k_2 as written in the notebook
LiteralQ1 == <<1, 2, 3, 4, 5, 6>>
LiteralK == FromRows(<<(<<1, 0, 0 - 1, 2, 7, 4>>), (<<1, 2, 3, 4, 7, 6>>)>>)
\* q_2 = np.random.randint(-1, 7, size=6): the draws with one entry 1 and the rest 0
LiteralQ2 == {[k \in 1..6 |-> IF k = p THEN 1 ELSE 0] : p \in 1..6}

NVals == {IntN(v) : v \in (0 - MaxVal)..MaxVal}

\* the arrays Q and K of a run: small integer arrays with the same number of
\* columns, or the arrays written in the notebook
NotebookInit ==
    /\ LayerIdle
    /\ kin = None /\ kret = None
    /\ \/ \E n \in 1..MaxCols, rq \in 1..MaxRows, rk \in 1..MaxRows :
             \E fq \in [(1..rq) \X (1..n) -> NVals], fk \in [(1..rk) \X (1..n) -> NVals] :
                 /\ nbQ = [r |-> rq, c |-> n, at |-> fq]
                 /\ nbK = [r |-> rk, c |-> n, at |-> fk]
       \/ \E q2 \in LiteralQ2 : nbQ = FromRows(<<LiteralQ1, q2>>) /\ nbK = LiteralK
    /\ nbDots = None /\ A_i = None /\ nbEinsum = None /\ nbA = None
    /\ cell = 0

\* dot_prod(q_i, k_1), dot_prod(q_i, k_2)
CellDotProd ==
    /\ cell = 0
    /\ nbDots' = [j \in 1..nbK.r |-> dot_prod(q_i, k_(j))]
    /\ cell' = 1
    /\ UNCHANGED <<nbQ, nbK, A_i, nbEinsum, nbA, layerVars, kernelVars>>

\* A_i = q_i[None,:] @ K.T
CellMatrixForm ==
    /\ cell = 1
    /\ A_i' = MatMul(RowVector(q_i), Transpose(nbK))
    /\ cell' = 2
    /\ UNCHANGED <<nbQ, nbK, nbDots, nbEinsum, nbA, layerVars, kernelVars>>

\* np.einsum("i,ji", q_i, K)
CellEinsum ==
    /\ cell = 2
    /\ nbEinsum' = Einsum(q_i, nbK)
    /\ cell' = 3
    /\ UNCHANGED <<nbQ, nbK, nbDots, A_i, nbA, layerVars, kernelVars>>

\* A = Q @ K.T
CellScores ==
    /\ cell = 3
    /\ nbA' = MatMul(nbQ, Transpose(nbK))
    /\ cell' = 4
    /\ UNCHANGED <<nbQ, nbK, nbDots, A_i, nbEinsum, layerVars, kernelVars>>

\* A = A / np.sqrt(6)
CellScale ==
    /\ cell = 4
    /\ nbA' = DivSqrt(nbA, NotebookDk)
    /\ cell' = 5
    /\ UNCHANGED <<nbQ, nbK, nbDots, A_i, nbEinsum, layerVars, kernelVars>>

\* A = A / A.max(axis=1)[:,None]
CellMaxNorm ==
    /\ cell = 5
    /\ nbA' = MaxNorm(nbA)
    /\ cell' = 6
    /\ UNCHANGED <<nbQ, nbK, nbDots, A_i, nbEinsum, layerVars, kernelVars>>

NotebookNext ==
    \/ CellDotProd
    \/ CellMatrixForm
    \/ CellEinsum
    \/ CellScores
    \/ CellScale
    \/ CellMaxNorm

SpecNotebook == NotebookInit /\ [][NotebookNext]_vars

-----------------------------------------------------------------------------
(* Predicates on numbers used by the properties *)

One == Fr(ConstPoly(1), ConstPoly(1))

\* every coefficient positive: the sum is a positive real
PosPoly(p) == DOMAIN p # {} /\ \A e \in DOMAIN p : p[e] > 0
\* every coefficient non-negative: the sum is a non-negative real
NonNegPoly(p) == \A e \in DOMAIN p : p[e] >= 0

IsReal(x) == x.t \in {"int", "fr"}
\* x = y as reals, by cross-multiplication
FrEq(x, y) ==
    /\ IsReal(x) /\ IsReal(y)
    /\ PolyMul(ToFr(x).num, ToFr(y).den) = PolyMul(ToFr(y).num, ToFr(x).den)
NonNeg(x) == x.t = "fr" /\ PosPoly(x.den) /\ NonNegPoly(x.num)
\* lo <= x <= hi for integers lo, hi
Between(x, lo, hi) ==
    /\ x.t = "fr" /\ PosPoly(x.den)
    /\ NonNegPoly(PolySub(x.num, PolyScale(x.den, lo)))
    /\ NonNegPoly(PolySub(PolyScale(x.den, hi), x.num))

Row(M, i) == [j \in 1..M.c |-> M.at[<<i, j>>]]
Col(M, j) == [i \in 1..M.r |-> M.at[<<i, j>>]]
MinInt(S) == CHOOSE x \in S : \A y \in S : x <= y
MaxInt(S) == CHOOSE x \in S : \A y \in S : x >= y

KDone == kret # None
KValid == kin.Q.c = kin.K.c /\ kin.K.r = kin.V.r /\ kin.dk > 0
KReturned == KDone /\ kret.status = "returned"

\* C1: for valid Q, K, V the attention matrix is row-stochastic: every entry
\* is non-negative and every row sums to 1.
C1_RowStochastic ==
    (KDone /\ KValid) =>
        /\ kret.status = "returned"
        /\ \A i \in 1..kret.A.r :
              /\ FrEq(SumSeq(Row(kret.A, i)), One)
              /\ \A j \in 1..kret.A.c : NonNeg(kret.A.at[<<i, j>>])

\* two queries, two keys, and a row that prefers one key to the other
C1_Witness ==
    /\ KDone /\ KValid /\ kret.status = "returned"
    /\ kret.A.r = 2 /\ kret.A.c = 2
    /\ ~FrEq(kret.A.at[<<1, 1>>], kret.A.at[<<1, 2>>])

\* The reference of C5, entry by entry: the raw score of query i and key j,
\* exp of the scaled score, and the row's normaliser.
RefScore(i, j) ==
    LET ks == 1..kin.Q.c
    IN SumSet(ks, [k \in ks |-> kin.Q.at[<<i, k>>].v * kin.K.at[<<j, k>>].v])
RefExp(i, j) == Mono(<<0, RefScore(i, j)>>, 1)
RefDen(i) == SumPolys([j \in 1..kin.K.r |-> RefExp(i, j)])
RefOut(i, c) ==
    Fr(SumPolys([j \in 1..kin.K.r |-> PolyScale(RefExp(i, j), kin.V.at[<<j, c>>].v)]),
       RefDen(i))

\* C5: for valid inputs the result is S = Q.K^T, S' = S/sqrt(dk), A = row-wise
\* softmax of S', O = A.V, with A of shape (n_q, n_k) and O of shape (n_q, d_v).
C5_ForwardIsReference ==
    (KDone /\ KValid) =>
        /\ kret.status = "returned"
        /\ kret.A.r = kin.Q.r /\ kret.A.c = kin.K.r
        /\ kret.output.r = kin.Q.r /\ kret.output.c = kin.V.c
        /\ \A i \in 1..kin.Q.r :
              /\ \A j \in 1..kin.K.r :
                    FrEq(kret.A.at[<<i, j>>], Fr(RefExp(i, j), RefDen(i)))
              /\ \A c \in 1..kin.V.c : FrEq(kret.output.at[<<i, c>>], RefOut(i, c))

\* dk > 1 and a non-zero score: scaling changes the attention matrix
C5_Witness ==
    /\ KDone /\ KValid /\ kret.status = "returned"
    /\ kin.dk > 1 /\ kin.K.r = 2 /\ kin.V.c = 2
    /\ \E i \in 1..kin.Q.r : RefScore(i, 1) # 0 /\ RefScore(i, 1) # RefScore(i, 2)

\* C6: every row of O is a convex combination of the rows of V: O[i][c] is the
\* sum of A[i][j]*V[j][c] with non-negative weights summing to 1, so it lies
\* between the minimum and the maximum of column c of V.
C6_ConvexCombination ==
    (KDone /\ KValid) =>
        /\ kret.status = "returned"
        /\ \A i \in 1..kret.output.r :
              /\ FrEq(SumSeq(Row(kret.A, i)), One)
              /\ \A j \in 1..kret.A.c : NonNeg(kret.A.at[<<i, j>>])
              /\ \A c \in 1..kret.output.c :
                    LET vs == {kin.V.at[<<j, c>>].v : j \in 1..kin.V.r} IN
                    /\ FrEq(kret.output.at[<<i, c>>],
                            SumSeq([j \in 1..kin.V.r |->
                                       Mul(kret.A.at[<<i, j>>], kin.V.at[<<j, c>>])]))
                    /\ Between(kret.output.at[<<i, c>>], MinInt(vs), MaxInt(vs))

\* a column of V with two different values, and an output strictly between them
C6_Witness ==
    /\ KDone /\ KValid /\ kret.status = "returned"
    /\ kin.V.r = 2 /\ kin.V.at[<<1, 1>>] # kin.V.at[<<2, 1>>]
    /\ ~FrEq(kret.output.at[<<1, 1>>], kin.V.at[<<1, 1>>])
    /\ ~FrEq(kret.output.at[<<1, 1>>], kin.V.at[<<2, 1>>])

\* C7: with a single key (n_k = 1) A is a column of ones and every row of O is
\* the single row of V, whatever the scores and dk.
C7_SingleKey ==
    (KDone /\ KValid /\ kin.K.r = 1) =>
        /\ kret.status = "returned"
        /\ kret.A.c = 1
        /\ \A i \in 1..kin.Q.r :
              /\ FrEq(kret.A.at[<<i, 1>>], One)
              /\ \A c \in 1..kin.V.c : FrEq(kret.output.at[<<i, c>>], kin.V.at[<<1, c>>])

\* one key, two queries, a non-zero score and dk > 1
C7_Witness ==
    /\ KDone /\ KValid /\ kret.status = "returned"
    /\ kin.K.r = 1 /\ kin.Q.r = 2 /\ kin.dk > 1
    /\ RefScore(1, 1) # 0 /\ RefScore(2, 1) # RefScore(1, 1)

\* C3: the attention computation fails, returning no output, whenever Q's and
\* K's last dimensions differ, or K's and V's row counts differ, or dk is not
\* positive.
C3_InvalidInputRaises ==
    (KDone /\ ~KValid) => kret.status = "raised"

-----------------------------------------------------------------------------
(* The layer *)

Returned == ret # None /\ ret.status = "returned"

\* the forward computation of the last invocation, on the same inputs and
\* the same projection weights, with the flag return_attn set to flag
LastForward(flag) ==
    Call([Self EXCEPT !.return_attn = flag], inputs,
         [Q |-> selfQ.kernel, K |-> selfK.kernel, V |-> selfV.kernel]).ret

\* the projections of the last input and the attention steps on them
LastAttention ==
    Attention(DenseCall(selfQ, inputs, selfQ.kernel).out,
              DenseCall(selfK, inputs, selfK.kernel).out,
              DenseCall(selfV, inputs, selfV.kernel).out, dk)

\* C2: return_attn only selects what is returned: the result without the flag
\* is the second component of the pair (A, O) returned with it, on the same
\* inputs and parameters, and the pair is the attention matrix, then the output.
C2_FlagOnlySelects ==
    Returned =>
        \A with \in {LastForward(TRUE)}, without \in {LastForward(FALSE)},
           att \in {LastAttention} :
            /\ with.status = "returned"
            /\ without.status = "returned"
            /\ ret = (IF return_attn THEN with ELSE without)
            /\ without.value = with.value[2]
            /\ with.value = <<att.A, att.output>>
            /\ with.value[1].c = inputs.r
            /\ with.value[2].c = dv

\* a call that returned the pair, of an attention matrix that differs from the output
C2_Witness ==
    /\ Returned /\ return_attn
    /\ inputs.r = 2 /\ dk = 1 /\ dv = 1
    /\ ret.value[1] # ret.value[2]
    /\ ~FrEq(ret.value[1].at[<<2, 1>>], ret.value[1].at[<<2, 2>>])

\* C4: a failed invocation leaves the layer's state (dk, dv, return_attn, the
\* existence and identity of the projections) exactly as it was before the
\* call, also when it is the first call on the layer.
C4_FailedCallKeepsState ==
    [][(ret' # None /\ ret'.status = "raised") =>
          UNCHANGED <<dk, dv, return_attn, built, selfQ, selfK, selfV>>]_vars

\* C8: the projections are created once, with dk, dk and dv output units, and
\* no later forward call creates or replaces them or changes dk, dv, return_attn.
C8_ProjectionsCreatedOnce ==
    [][/\ dk' = dk /\ dv' = dv /\ return_attn' = return_attn
       /\ (selfQ # None => selfQ' # None /\ selfQ'.id = selfQ.id)
       /\ (selfK # None => selfK' # None /\ selfK'.id = selfK.id)
       /\ (selfV # None => selfV' # None /\ selfV'.id = selfV.id)
       /\ (selfQ' # None => selfQ'.units = dk)
       /\ (selfK' # None => selfK'.units = dk)
       /\ (selfV' # None => selfV'.units = dv)]_vars

-----------------------------------------------------------------------------
(* The notebook *)

IsLiteral == q_i = [j \in 1..6 |-> IntN(LiteralQ1[j])] /\ nbK = LiteralK

\* the three formulations of the raw scores of q_i against the keys agree
FormsAgree ==
    /\ ~IsError(A_i)
    /\ A_i.r = 1 /\ A_i.c = nbK.r
    /\ DOMAIN nbDots = 1..nbK.r /\ DOMAIN nbEinsum = 1..nbK.r
    /\ \A j \in 1..nbK.r :
          /\ nbDots[j] = A_i.at[<<1, j>>]
          /\ nbEinsum[j] = A_i.at[<<1, j>>]
          /\ nbDots[j].t = "int"

\* C9 as stated: the loop form dot_prod(q, k_j), the matrix form
\* q[None,:] @ K.T and the Einstein-summation form give the same scores for
\* every query and key set of equal length; for the notebook's q, k_1, k_2
\* the scores are [[45, 85]].
C9_ThreeFormsAgree45_85 ==
    cell >= 3 =>
        /\ FormsAgree
        /\ IsLiteral => A_i = FromRows(<<(<<45, 85>>)>>)

\* C9 as amended: the three forms give the same scores for every query and
\* key set of equal length; for the notebook's q, k_1, k_2 the scores are
\* [[65, 101]].
C9_ThreeFormsAgree ==
    cell >= 3 =>
        /\ FormsAgree
        /\ IsLiteral => A_i = FromRows(<<(<<65, 101>>)>>)

\* the notebook's own vectors, all three forms computed
C9_Witness ==
    /\ cell >= 3 /\ IsLiteral
    /\ nbDots = <<IntN(65), IntN(101)>>
    /\ nbEinsum[2] = IntN(101)

\* the raw scores of the stacked queries and keys
RawRow(i) ==
    [j \in 1..nbK.r |->
        LET ks == 1..nbQ.c
        IN SumSet(ks, [k \in ks |-> nbQ.at[<<i, k>>].v * nbK.at[<<j, k>>].v])]
RawSum(i) == LET js == 1..nbK.r IN SumSet(js, RawRow(i))
RawMax(i) == MaxInt({RawRow(i)[j] : j \in 1..nbK.r})

RowSumsToOne(M, i) ==
    /\ \A j \in 1..M.c : M.at[<<i, j>>].t = "fr"
    /\ FrEq(SumSeq(Row(M, i)), One)

\* C10 as stated: after the division by the row maximum no row sums to 1.
C10_NoRowSumsToOne ==
    cell = 6 => \A i \in 1..nbA.r : ~RowSumsToOne(nbA, i)

\* C10 as amended: after the division by the row maximum a row sums to 1
\* exactly when its maximum is not zero and its other entries sum to zero;
\* every other row does not sum to 1.
C10_RowSumsToOneIffRestIsZero ==
    cell = 6 =>
        \A i \in 1..nbA.r :
            RowSumsToOne(nbA, i) <=> (RawMax(i) # 0 /\ RawSum(i) = RawMax(i))

\* the notebook's keys and q_1: the row of q_1 sums to 166/101, the row of a
\* q_2 orthogonal to k_1 sums to 1
C10_Witness ==
    /\ cell = 6 /\ IsLiteral
    /\ RawRow(1) = <<65, 101>> /\ ~RowSumsToOne(nbA, 1)
    /\ RawRow(2)[1] = 0 /\ RowSumsToOne(nbA, 2)

=============================================================================
